---- MODULE Spec2Model ----
(***************************************************************************)
(* Model of osu_mania_parser.py: the line decoders TimingPoint.parse and   *)
(* HitObject.parse, the Beatmap aggregate (add_timing_point,               *)
(* add_hit_object, get_timing_point) and the line loop of parse_file_sync. *)
(*                                                                         *)
(* Text is a sequence of one-character strings; str.split, int(), float()  *)
(* and the section regular expression are computed on those sequences.     *)
(* A float is the exact rational [num, den] of its decimal text (den a     *)
(* power of ten); exponents, inf and nan are outside the modelled syntax.  *)
(***************************************************************************)
EXTENDS Integers, Sequences, FiniteSets, TLC

VARIABLES
    beatmap,          \* the Beatmap object (record of its fields)
    section_to_read,  \* parse_file_sync: the current section name (text)
    pc,               \* "idle" (object constructed) | "loop" | "returned" | "raised"
    err,              \* outcome of the last call / line: "none" or the exception
    line_no,          \* number of calls made / lines consumed so far
    last_line,        \* the line handed to the last call / the last line consumed
    q_time,           \* argument of the last get_timing_point call, or -1
    q_result          \* index in timing_points of the point it returned, or 0

vars == <<beatmap, section_to_read, pc, err, line_no, last_line, q_time, q_result>>

-----------------------------------------------------------------------------
(* Bounds of the model *)

MaxLines == 4
MaxTimingPoints == 3
MaxHitObjects == 3
MaxQueryTime == 3

-----------------------------------------------------------------------------
(* Text *)

Digits == <<"0", "1", "2", "3", "4", "5", "6", "7", "8", "9">>

IsDigit(c) == \E d \in 1..10 : Digits[d] = c

DigitVal(c) == (CHOOSE d \in 1..10 : Digits[d] = c) - 1

Letters ==
    {"a","b","c","d","e","f","g","h","i","j","k","l","m","n","o","p","q","r","s","t",
     "u","v","w","x","y","z",
     "A","B","C","D","E","F","G","H","I","J","K","L","M","N","O","P","Q","R","S","T",
     "U","V","W","X","Y","Z"}

IsAlnum(c) == c \in Letters \/ IsDigit(c)

\* decimal text of a natural number / an integer (used to build input lines)
RECURSIVE NatText(_)
NatText(n) == IF n < 10 THEN <<Digits[n + 1]>>
              ELSE NatText(n \div 10) \o <<Digits[(n % 10) + 1]>>

IntText(n) == IF n < 0 THEN <<"-">> \o NatText(-n) ELSE NatText(n)

RECURSIVE Join(_, _)
Join(fields, sep) ==
    IF Len(fields) = 0 THEN <<>>
    ELSE IF Len(fields) = 1 THEN fields[1]
    ELSE fields[1] \o sep \o Join(Tail(fields), sep)

StartsWith(s, p) == Len(s) >= Len(p) /\ SubSeq(s, 1, Len(p)) = p

\* smallest index at which sep occurs in s, 0 if none
Find(s, sep) ==
    LET hits == {i \in 1..(Len(s) - Len(sep) + 1) : SubSeq(s, i, i + Len(sep) - 1) = sep}
    IN  IF hits = {} THEN 0 ELSE CHOOSE i \in hits : \A j \in hits : i <= j

\* str.split(sep), sep non-empty
RECURSIVE split(_, _)
split(s, sep) ==
    LET i == Find(s, sep)
    IN  IF i = 0 THEN <<s>>
        ELSE <<SubSeq(s, 1, i - 1)>> \o split(SubSeq(s, i + Len(sep), Len(s)), sep)

\* str.strip() on the blank character
RECURSIVE strip(_)
strip(s) ==
    IF Len(s) > 0 /\ s[1] = " " THEN strip(Tail(s))
    ELSE IF Len(s) > 0 /\ s[Len(s)] = " " THEN strip(SubSeq(s, 1, Len(s) - 1))
    ELSE s

Unsigned(s) == IF Len(s) > 0 /\ s[1] \in {"-", "+"} THEN Tail(s) ELSE s

IsNegText(s) == Len(s) > 0 /\ s[1] = "-"

AllDigits(s) == \A i \in 1..Len(s) : IsDigit(s[i])

RECURSIVE NatVal(_)
NatVal(s) == IF Len(s) = 0 THEN 0
             ELSE 10 * NatVal(SubSeq(s, 1, Len(s) - 1)) + DigitVal(s[Len(s)])

\* int(s): does it parse, and to what
IntOk(s) == LET u == Unsigned(strip(s)) IN Len(u) > 0 /\ AllDigits(u)

IntVal(s) == LET t == strip(s)
                 v == NatVal(Unsigned(t))
             IN  IF IsNegText(t) THEN -v ELSE v

RECURSIVE Pow10(_)
Pow10(k) == IF k = 0 THEN 1 ELSE 10 * Pow10(k - 1)

\* float(s) for decimal text: digits, optionally a point and more digits
FloatOk(s) ==
    LET u == Unsigned(strip(s))
        p == Find(u, <<".">>)
        ip == IF p = 0 THEN u ELSE SubSeq(u, 1, p - 1)
        fp == IF p = 0 THEN <<>> ELSE SubSeq(u, p + 1, Len(u))
    IN  AllDigits(ip) /\ AllDigits(fp) /\ Len(ip) + Len(fp) > 0

FloatVal(s) ==
    LET t == strip(s)
        u == Unsigned(t)
        p == Find(u, <<".">>)
        ip == IF p = 0 THEN u ELSE SubSeq(u, 1, p - 1)
        fp == IF p = 0 THEN <<>> ELSE SubSeq(u, p + 1, Len(u))
        n == NatVal(ip) * Pow10(Len(fp)) + NatVal(fp)
    IN  [num |-> IF IsNegText(t) THEN -n ELSE n, den |-> Pow10(Len(fp))]

Abs(n) == IF n < 0 THEN -n ELSE n

\* round(a / b) for integers a >= 0, b > 0: to the nearest, ties to the even one
RoundDiv(a, b) ==
    LET q == a \div b
        r == a % b
    IN  IF 2 * r < b THEN q
        ELSE IF 2 * r > b THEN q + 1
        ELSE IF q % 2 = 0 THEN q ELSE q + 1

\* bit k of an integer (n & 2^k) != 0
Bit(n, k) == (n \div (2 ^ k)) % 2 = 1

\* the outcome of a decoder: a value or the exception it raises
Ok(v) == [ok |-> TRUE, value |-> v, err |-> "none"]
Raise(e) == [ok |-> FALSE, value |-> <<>>, err |-> e]

\* members[i] of a Python list, 0-based
At(members, i) == members[i + 1]
Has(members, i) == i + 1 <= Len(members)

\* the exception of int(members[i]), "none" if it evaluates
IntErr(members, i) ==
    IF ~Has(members, i) THEN "IndexError"
    ELSE IF ~IntOk(At(members, i)) THEN "ValueError"
    ELSE "none"

\* the first exception in evaluation order, "none" if there is none
RECURSIVE FirstErr(_)
FirstErr(es) == IF Len(es) = 0 THEN "none"
                ELSE IF es[1] # "none" THEN es[1]
                ELSE FirstErr(Tail(es))

-----------------------------------------------------------------------------
(* TimingPoint *)

\* Optional[int]: <<>> is None, <<v>> is the value v
None == <<>>
Some(v) == <<v>>

\* the bpm and velocity computed from the beat length (a rational, not zero)
BpmOf(beat_length) ==
    IF beat_length.num > 0
    THEN RoundDiv(60000 * beat_length.den, beat_length.num)
    ELSE 0

VelocityOf(beat_length) ==
    IF beat_length.num > 0
    THEN [num |-> 1, den |-> 1]
    ELSE [num |-> 100 * beat_length.den, den |-> Abs(beat_length.num)]

\* variant: the sentinel 0 is kept as a present bpm
OptionalBpm_keep_zero(bpm) == Some(bpm)

OptionalBpm(bpm) == IF bpm # 0 THEN Some(bpm) ELSE None

TimingPoint_parse(line) ==
    LET members == split(line, <<",">>)
        e_beat == IF ~Has(members, 1) THEN "IndexError"
                  ELSE IF ~FloatOk(At(members, 1)) THEN "ValueError"
                  ELSE IF FloatVal(At(members, 1)).num = 0 THEN "ZeroDivisionError"
                  ELSE "none"
        e == FirstErr(<<e_beat, IntErr(members, 7), IntErr(members, 0),
                        IntErr(members, 2), IntErr(members, 3),
                        IntErr(members, 4), IntErr(members, 5)>>)
    IN  IF e # "none" THEN Raise(e)
        ELSE LET beat_length == FloatVal(At(members, 1))
                 effects == IntVal(At(members, 7))
             IN  Ok([time |-> IntVal(At(members, 0)),
                     bpm |-> OptionalBpm(BpmOf(beat_length)),
                     velocity |-> VelocityOf(beat_length),
                     timing_signature |-> IntVal(At(members, 2)),
                     sample_set |-> IntVal(At(members, 3)),
                     sample_index |-> IntVal(At(members, 4)),
                     volume |-> IntVal(At(members, 5)),
                     uninherited |-> (At(members, 6) = <<"1">>),
                     kiai_time |-> Bit(effects, 0),
                     omit_first_bar_line |-> Bit(effects, 2)])

-----------------------------------------------------------------------------
(* HitObject *)

HitSounds(hitsound_flags) ==
    LET hs == (IF Bit(hitsound_flags, 0) THEN <<"normal">> ELSE <<>>)
              \o (IF Bit(hitsound_flags, 1) THEN <<"whistle">> ELSE <<>>)
              \o (IF Bit(hitsound_flags, 2) THEN <<"finish">> ELSE <<>>)
              \o (IF Bit(hitsound_flags, 3) THEN <<"clap">> ELSE <<>>)
    IN  IF Len(hs) = 0 THEN <<"normal">> ELSE hs

\* which branch of the type test is taken
IsNote(type_flags) == Bit(type_flags, 0)

\* variant: the hold mask off by one bit (0b1000000)
IsHold_bit6(type_flags) == Bit(type_flags, 6)

IsHold(type_flags) == Bit(type_flags, 7)

TypeOf(type_flags) ==
    IF IsNote(type_flags) THEN "note"
    ELSE IF IsHold(type_flags) THEN "hold"
    ELSE "unknown"

\* variant: a hold's end time read from the time field, as a note's is
EndField_from_time(members) == At(members, 2)

\* the end-time text of a hold: members[5].split(':')[0]
EndField(members) == split(At(members, 5), <<":">>)[1]

HitObject_parse(line) ==
    LET members == split(line, <<",">>)
        e_flags == FirstErr(<<IntErr(members, 3), IntErr(members, 4)>>)
    IN  IF e_flags # "none" THEN Raise(e_flags)
        ELSE
        LET type_flags == IntVal(At(members, 3))
            type == TypeOf(type_flags)
            e_pos == FirstErr(<<IntErr(members, 0), IntErr(members, 1),
                                IntErr(members, 2)>>)
            e_end == IF ~Has(members, 5) THEN "IndexError"
                     ELSE IF ~IntOk(EndField(members)) THEN "ValueError"
                     ELSE "none"
            e == IF type = "unknown" THEN "ValueError: Unknown hit object type!"
                 ELSE IF type = "note" THEN e_pos
                 ELSE FirstErr(<<e_pos, e_end>>)
        IN  IF e # "none" THEN Raise(e)
            ELSE Ok([type |-> type,
                     hit_sound |-> HitSounds(IntVal(At(members, 4))),
                     new_combo |-> Bit(type_flags, 2),
                     combo_colors_skipped |-> (type_flags \div 4) % 8,
                     x |-> IntVal(At(members, 0)),
                     y |-> IntVal(At(members, 1)),
                     time |-> IntVal(At(members, 2)),
                     end_time |-> IF type = "note" THEN IntVal(At(members, 2))
                                  ELSE IntVal(EndField(members))])

-----------------------------------------------------------------------------
(* Beatmap *)

Zero == [num |-> 0, den |-> 1]

Beatmap ==
    [title |-> <<>>, artist |-> <<>>, creator |-> <<>>, version |-> <<>>,
     source |-> <<>>, tags |-> <<>>, map_id |-> 0, mapset_id |-> 0,
     preview_time |-> 0, key_count |-> 0, hp_drain |-> Zero, difficulty |-> Zero,
     key_positions |-> <<>>, min_bpm |-> 0, max_bpm |-> 0,
     nb_notes |-> 0, nb_holds |-> 0, timing_points |-> <<>>, hit_objects |-> <<>>]

\* variant: the scan compares with < instead of <=
RECURSIVE ScanBack_strict(_, _, _)
ScanBack_strict(timing_points, time, i) ==
    IF i < 1 THEN 1
    ELSE IF timing_points[i].time < time THEN i
    ELSE ScanBack_strict(timing_points, time, i - 1)

\* the backward scan: the index (1-based) of the point returned
RECURSIVE ScanBack(_, _, _)
ScanBack(timing_points, time, i) ==
    IF i < 1 THEN 1
    ELSE IF timing_points[i].time <= time THEN i
    ELSE ScanBack(timing_points, time, i - 1)

get_timing_point(self, time) ==
    IF Len(self.timing_points) = 0 THEN Raise("IndexError")
    ELSE Ok(ScanBack(self.timing_points, time, Len(self.timing_points)))

\* variant: the comparison is made without testing that bpm is present
NewMinBpm_unguarded(min_bpm, point) ==
    LET bpm == IF point.bpm # None THEN point.bpm[1] ELSE 0
    IN  IF min_bpm = 0 THEN bpm
        ELSE IF min_bpm > bpm THEN bpm
        ELSE min_bpm

NewMinBpm(min_bpm, point) ==
    LET bpm == IF point.bpm # None THEN point.bpm[1] ELSE 0
    IN  IF min_bpm = 0 THEN bpm
        ELSE IF point.bpm # None /\ min_bpm > point.bpm[1] THEN bpm
        ELSE min_bpm

\* variant: the maximum is initialised and never extended
NewMaxBpm_init_only(max_bpm, point) ==
    LET bpm == IF point.bpm # None THEN point.bpm[1] ELSE 0
    IN  IF max_bpm = 0 THEN bpm ELSE max_bpm

NewMaxBpm(max_bpm, point) ==
    LET bpm == IF point.bpm # None THEN point.bpm[1] ELSE 0
    IN  IF max_bpm = 0 THEN bpm
        ELSE IF point.bpm # None /\ max_bpm < point.bpm[1] THEN bpm
        ELSE max_bpm

add_timing_point(self, line) ==
    LET r == TimingPoint_parse(line)
    IN  IF ~r.ok THEN Raise(r.err)
        ELSE Ok([self EXCEPT
                   !.min_bpm = NewMinBpm(self.min_bpm, r.value),
                   !.max_bpm = NewMaxBpm(self.max_bpm, r.value),
                   !.timing_points = Append(self.timing_points, r.value)])

\* variant: every object is counted as a note
NbNotes_always(nb_notes, type) == nb_notes + 1

NbNotes(nb_notes, type) == IF type = "note" THEN nb_notes + 1 ELSE nb_notes

NbHolds(nb_holds, type) ==
    IF type = "note" THEN nb_holds
    ELSE IF type = "hold" THEN nb_holds + 1
    ELSE nb_holds

Contains(list, v) == \E i \in 1..Len(list) : list[i] = v

NewKeyPositions(key_positions, x) ==
    IF ~Contains(key_positions, x) THEN Append(key_positions, x) ELSE key_positions

add_hit_object(self, line) ==
    LET r == HitObject_parse(line)
    IN  IF ~r.ok THEN Raise(r.err)
        ELSE Ok([self EXCEPT
                   !.nb_notes = NbNotes(self.nb_notes, r.value.type),
                   !.nb_holds = NbHolds(self.nb_holds, r.value.type),
                   !.key_positions = NewKeyPositions(self.key_positions, r.value.x),
                   !.hit_objects = Append(self.hit_objects, r.value)])

\* list.sort() on integers: insertion sort, ascending
RECURSIVE Insert(_, _)
Insert(sorted, v) ==
    IF Len(sorted) = 0 THEN <<v>>
    ELSE IF v <= sorted[1] THEN <<v>> \o sorted
    ELSE <<sorted[1]>> \o Insert(Tail(sorted), v)

\* variant: the list is left in insertion order
sort_none(list) == list

RECURSIVE sort(_)
sort(list) == IF Len(list) = 0 THEN <<>>
              ELSE Insert(sort(SubSeq(list, 1, Len(list) - 1)), list[Len(list)])

-----------------------------------------------------------------------------
(* parse_file_sync *)

\* the section names and keys the line loop compares against
sGeneral == <<"G", "e", "n", "e", "r", "a", "l">>
sMetadata == <<"M", "e", "t", "a", "d", "a", "t", "a">>
sDifficulty == <<"D", "i", "f", "f", "i", "c", "u", "l", "t", "y">>
sTimingPoints == <<"T", "i", "m", "i", "n", "g", "P", "o", "i", "n", "t", "s">>
sHitObjects == <<"H", "i", "t", "O", "b", "j", "e", "c", "t", "s">>
sEvents == <<"E", "v", "e", "n", "t", "s">>
sMode == <<"M", "o", "d", "e">>
sPreviewTime == <<"P", "r", "e", "v", "i", "e", "w", "T", "i", "m", "e">>
sTitle == <<"T", "i", "t", "l", "e">>
sArtist == <<"A", "r", "t", "i", "s", "t">>
sCreator == <<"C", "r", "e", "a", "t", "o", "r">>
sVersion == <<"V", "e", "r", "s", "i", "o", "n">>
sTags == <<"T", "a", "g", "s">>
sBeatmapID == <<"B", "e", "a", "t", "m", "a", "p", "I", "D">>
sBeatmapSetID == <<"B", "e", "a", "t", "m", "a", "p", "S", "e", "t", "I", "D">>
sHPDrainRate == <<"H", "P", "D", "r", "a", "i", "n", "R", "a", "t", "e">>
sCircleSize == <<"C", "i", "r", "c", "l", "e", "S", "i", "z", "e">>
sOverallDifficulty == <<"O", "v", "e", "r", "a", "l", "l", "D", "i", "f", "f", "i", "c", "u", "l", "t", "y">>

\* re.match(r'^\[([a-zA-Z0-9]+)\]$', line) is not None, and its group(1)
IsHeader(line) ==
    /\ Len(line) >= 3
    /\ line[1] = "[" /\ line[Len(line)] = "]"
    /\ \A i \in 2..(Len(line) - 1) : IsAlnum(line[i])

HeaderName(line) == SubSeq(line, 2, Len(line) - 1)

\* the filter applied to contents.split('\r\n')
Kept(line) == ~StartsWith(line, <<"/", "/">>) /\ line # <<>>

ModeError == "ValueError: Beatmap's game mode is not set to osu!mania."

\* variant: the Mode value is not tested
GeneralLine_no_mode_check(bm, line) ==
    LET gen == split(line, <<":", " ">>) \o << <<>> >>
    IN  IF At(gen, 0) = sMode
        THEN Ok(bm)
        ELSE IF At(gen, 0) = sPreviewTime
        THEN IF ~IntOk(At(gen, 1)) THEN Raise("ValueError")
             ELSE Ok([bm EXCEPT !.preview_time = IntVal(At(gen, 1))])
        ELSE Ok(bm)

GeneralLine(bm, line) ==
    LET gen == split(line, <<":", " ">>) \o << <<>> >>
    IN  IF At(gen, 0) = sMode
        THEN IF At(gen, 1) # <<"3">> THEN Raise(ModeError) ELSE Ok(bm)
        ELSE IF At(gen, 0) = sPreviewTime
        THEN IF ~IntOk(At(gen, 1)) THEN Raise("ValueError")
             ELSE Ok([bm EXCEPT !.preview_time = IntVal(At(gen, 1))])
        ELSE Ok(bm)

MetadataLine(bm, line) ==
    LET mdata == split(line, <<":">>)
        key == At(mdata, 0)
    IN  IF key \notin {sTitle, sArtist, sCreator, sVersion, sTags, sBeatmapID, sBeatmapSetID}
        THEN Ok(bm)
        ELSE IF ~Has(mdata, 1) THEN Raise("IndexError")
        ELSE IF key = sTitle THEN Ok([bm EXCEPT !.title = At(mdata, 1)])
        ELSE IF key = sArtist THEN Ok([bm EXCEPT !.artist = At(mdata, 1)])
        ELSE IF key = sCreator THEN Ok([bm EXCEPT !.creator = At(mdata, 1)])
        ELSE IF key = sVersion THEN Ok([bm EXCEPT !.version = At(mdata, 1)])
        ELSE IF key = sTags THEN Ok([bm EXCEPT !.tags = split(At(mdata, 1), <<" ">>)])
        ELSE IF ~IntOk(At(mdata, 1)) THEN Raise("ValueError")
        ELSE IF key = sBeatmapID THEN Ok([bm EXCEPT !.map_id = IntVal(At(mdata, 1))])
        ELSE Ok([bm EXCEPT !.mapset_id = IntVal(At(mdata, 1))])

DifficultyLine(bm, line) ==
    LET diff == split(line, <<":">>) \o << <<>> >>
        key == At(diff, 0)
    IN  IF key = sHPDrainRate
        THEN IF ~FloatOk(At(diff, 1)) THEN Raise("ValueError")
             ELSE Ok([bm EXCEPT !.hp_drain = FloatVal(At(diff, 1))])
        ELSE IF key = sCircleSize
        THEN IF ~IntOk(At(diff, 1)) THEN Raise("ValueError")
             ELSE Ok([bm EXCEPT !.key_count = IntVal(At(diff, 1))])
        ELSE IF key = sOverallDifficulty
        THEN IF ~FloatOk(At(diff, 1)) THEN Raise("ValueError")
             ELSE Ok([bm EXCEPT !.difficulty = FloatVal(At(diff, 1))])
        ELSE Ok(bm)

\* variant: the hit-object handler is the final else arm
DataLine_default_hit(bm, section, line) ==
    IF section = sGeneral THEN GeneralLine(bm, line)
    ELSE IF section = sMetadata THEN MetadataLine(bm, line)
    ELSE IF section = sDifficulty THEN DifficultyLine(bm, line)
    ELSE IF section = sTimingPoints THEN add_timing_point(bm, line)
    ELSE add_hit_object(bm, line)

\* the body of the loop for a line that is not a header
DataLine(bm, section, line) ==
    IF section = sGeneral THEN GeneralLine(bm, line)
    ELSE IF section = sMetadata THEN MetadataLine(bm, line)
    ELSE IF section = sDifficulty THEN DifficultyLine(bm, line)
    ELSE IF section = sTimingPoints THEN add_timing_point(bm, line)
    ELSE IF section = sHitObjects THEN add_hit_object(bm, line)
    ELSE Ok(bm)

-----------------------------------------------------------------------------
(* Inputs: the lines the operations are called with *)

\* "time,beat_length,4,2,1,60,uninherited,effects"
TimingLine(time, beat_length, uninherited, effects) ==
    Join(<<IntText(time), beat_length, <<"4">>, <<"2">>, <<"1">>, <<"6", "0">>,
           uninherited, IntText(effects)>>, <<",">>)

TimingLines ==
    {TimingLine(1, <<"5", "0", "0">>, <<"1">>, 0),
     TimingLine(2, <<"2", "5", "0">>, <<"1">>, 0),
     TimingLine(2, <<"-", "5", "0">>, <<"0">>, 0),
     TimingLine(1, <<"-", "5", "0">>, <<"1">>, 0),
     TimingLine(1, <<"2", "0", "0", "0", "0", "0">>, <<"1">>, 0),
     TimingLine(3, <<"1", "2", "0", "0", "0", "0">>, <<"0">>, 0),
     TimingLine(3, <<"6", "2", ".", "5">>, <<"1">>, 5),
     TimingLine(1, <<"0">>, <<"0">>, 0),
     <<"1", ",", "5", "0", "0">>}

\* "x,192,time,type_flags,hitsound_flags,end_time:0:0:0:0:"
HitLine(x, time, type_flags, hitsound_flags, end_time) ==
    Join(<<IntText(x), <<"1", "9", "2">>, IntText(time), IntText(type_flags),
           IntText(hitsound_flags),
           IntText(end_time) \o <<":", "0", ":", "0", ":", "0", ":", "0", ":">>>>, <<",">>)

\* <<x, time, type_flags, hitsound_flags, end_time>>
HitParams ==
    {<<64, 2, 1, 0, 3>>, <<192, 2, 129, 0, 3>>, <<192, 2, 128, 0, 3>>,
     <<64, 2, 128, 0, 1>>, <<320, 2, 132, 10, 2>>, <<448, 1, 5, 3, 0>>,
     <<64, 2, 2, 0, 3>>, <<192, 2, 64, 0, 3>>}

HitLines ==
    {HitLine(p[1], p[2], p[3], p[4], p[5]) : p \in HitParams}
    \cup {<<"6", "4", ",", "1", "9", "2", ",", "2", ",", "1", "2", "8", ",", "0">>,
          <<"6", "4", ",", "1", "9", "2", ",", "2", ",", "1">>}

Header(name) == <<"[">> \o name \o <<"]">>

HeaderLines ==
    {Header(n) : n \in {sGeneral, sMetadata, sDifficulty, sTimingPoints,
                        sHitObjects, sEvents}}

KeyValueLines ==
    {<<"M", "o", "d", "e", ":", " ", "3">>,
     <<"M", "o", "d", "e", ":", " ", "1">>,
     <<"M", "o", "d", "e", ":", "3">>,
     <<"M", "o", "d", "e">>,
     <<"P", "r", "e", "v", "i", "e", "w", "T", "i", "m", "e", ":", " ", "5">>,
     <<"T", "i", "t", "l", "e", ":", "a", "b">>,
     <<"T", "a", "g", "s", ":", "a", " ", "b">>,
     <<"B", "e", "a", "t", "m", "a", "p", "I", "D", ":", "7">>,
     <<"C", "i", "r", "c", "l", "e", "S", "i", "z", "e", ":", "4">>,
     <<"H", "P", "D", "r", "a", "i", "n", "R", "a", "t", "e", ":", "7", ".", "5">>,
     <<"[", "H", "i", "t", " ", "O", "b", "j", "e", "c", "t", "s", "]">>}

FileTimingLines ==
    {TimingLine(1, <<"5", "0", "0">>, <<"1">>, 0), TimingLine(2, <<"-", "5", "0">>, <<"0">>, 0)}

FileHitParams ==
    {<<192, 2, 1, 0, 3>>, <<64, 2, 128, 0, 3>>, <<64, 2, 129, 0, 3>>, <<320, 2, 2, 0, 3>>}

FileLines ==
    HeaderLines \cup KeyValueLines
    \cup FileTimingLines
    \cup {HitLine(p[1], p[2], p[3], p[4], p[5]) : p \in FileHitParams}
    \cup {<<>>, <<"/", "/", "c">>}

-----------------------------------------------------------------------------
(* State and operations *)

Init ==
    /\ beatmap = Beatmap
    /\ section_to_read = <<>>
    /\ pc = "idle"
    /\ err = "none"
    /\ line_no = 0
    /\ last_line = <<>>
    /\ q_time = -1
    /\ q_result = 0

\* parse_file_sync(path), the path exists: the contents are read and split
Open ==
    /\ pc = "idle"
    /\ pc' = "loop"
    /\ UNCHANGED <<beatmap, section_to_read, err, line_no, last_line, q_time, q_result>>

\* parse_file_sync(path), no file at the path
OpenMissing ==
    /\ pc = "idle"
    /\ pc' = "raised"
    /\ err' = "FileNotFoundError"
    /\ UNCHANGED <<beatmap, section_to_read, line_no, last_line, q_time, q_result>>

\* one iteration of the line loop on a line matching the section pattern
ReadHeader(line) ==
    /\ pc = "loop"
    /\ line_no < MaxLines
    /\ Kept(line)
    /\ IsHeader(line)
    /\ section_to_read' = HeaderName(line)
    /\ line_no' = line_no + 1
    /\ last_line' = line
    /\ UNCHANGED <<beatmap, pc, err, q_time, q_result>>

\* one iteration of the line loop on any other line
ReadData(line) ==
    /\ pc = "loop"
    /\ line_no < MaxLines
    /\ Kept(line)
    /\ ~IsHeader(line)
    /\ LET r == DataLine(beatmap, section_to_read, line)
       IN  /\ beatmap' = IF r.ok THEN r.value ELSE beatmap
           /\ pc' = IF r.ok THEN "loop" ELSE "raised"
           /\ err' = r.err
    /\ line_no' = line_no + 1
    /\ last_line' = line
    /\ UNCHANGED <<section_to_read, q_time, q_result>>

\* the lines are exhausted: key_positions is sorted and the beatmap returned
Return ==
    /\ pc = "loop"
    /\ beatmap' = [beatmap EXCEPT !.key_positions = sort(beatmap.key_positions)]
    /\ pc' = "returned"
    /\ UNCHANGED <<section_to_read, err, line_no, last_line, q_time, q_result>>

Next ==
    \/ Open
    \/ OpenMissing
    \/ \E line \in FileLines : ReadHeader(line)
    \/ \E line \in FileLines : ReadData(line)
    \/ Return

Spec == Init /\ [][Next]_vars

\* Beatmap.add_timing_point(line) called on the object
AddTimingPoint(line) ==
    /\ pc = "idle"
    /\ Len(beatmap.timing_points) < MaxTimingPoints
    /\ LET r == add_timing_point(beatmap, line)
       IN  /\ beatmap' = IF r.ok THEN r.value ELSE beatmap
           /\ err' = r.err
    /\ last_line' = line
    /\ q_time' = -1
    /\ q_result' = 0
    /\ UNCHANGED <<section_to_read, pc, line_no>>

\* Beatmap.get_timing_point(time) called on the object
GetTimingPoint(time) ==
    /\ pc = "idle"
    /\ LET r == get_timing_point(beatmap, time)
       IN  /\ q_result' = IF r.ok THEN r.value ELSE 0
           /\ err' = r.err
    /\ q_time' = time
    /\ last_line' = <<>>
    /\ UNCHANGED <<beatmap, section_to_read, pc, line_no>>

NextTiming ==
    \/ \E line \in TimingLines : AddTimingPoint(line)
    \/ \E time \in 0..MaxQueryTime : GetTimingPoint(time)

SpecTiming == Init /\ [][NextTiming]_vars

\* Beatmap.add_hit_object(line) called on the object
AddHitObject(line) ==
    /\ pc = "idle"
    /\ Len(beatmap.hit_objects) < MaxHitObjects
    /\ LET r == add_hit_object(beatmap, line)
       IN  /\ beatmap' = IF r.ok THEN r.value ELSE beatmap
           /\ err' = r.err
    /\ last_line' = line
    /\ UNCHANGED <<section_to_read, pc, line_no, q_time, q_result>>

NextHit == \E line \in HitLines : AddHitObject(line)

SpecHit == Init /\ [][NextHit]_vars

-----------------------------------------------------------------------------
(* Properties *)

TP == beatmap.timing_points
HO == beatmap.hit_objects

\* the last call was get_timing_point on a non-empty list, and returned
Queried == q_time >= 0 /\ Len(TP) > 0

NonDecreasing(points) ==
    \A i \in 1..Len(points) : \A j \in 1..Len(points) : i < j => points[i].time <= points[j].time

\* the last index whose time is t
LastAt(points, t) ==
    CHOOSE i \in 1..Len(points) :
        /\ points[i].time = t
        /\ \A j \in 1..Len(points) : points[j].time = t => j <= i

\* C1 as stated: for every non-empty timing_points list in file order and every
\* query time t, get_timing_point(t) returns the first point when t is before the
\* first point's time, the last point when t is at or after the last point's
\* time, and the point p whenever t equals the time of a point p.
C1_AnyOrder ==
    Queried =>
        /\ q_time < TP[1].time => q_result = 1
        /\ q_time >= TP[Len(TP)].time => q_result = Len(TP)
        /\ \A i \in 1..Len(TP) : TP[i].time = q_time => TP[q_result] = TP[i]

\* C1 amended: t at or after the last point's time returns the last point for any
\* list; when the list is in non-decreasing time order, t before the first
\* point's time returns the first point, and t equal to the time of some point
\* returns the last point of the list that has that time.
C1_TimeOrdered ==
    Queried =>
        /\ q_time >= TP[Len(TP)].time => q_result = Len(TP)
        /\ NonDecreasing(TP) =>
              /\ q_time < TP[1].time => q_result = 1
              /\ \A i \in 1..Len(TP) :
                    TP[i].time = q_time => q_result = LastAt(TP, q_time)

C1_Witness ==
    /\ Queried
    /\ NonDecreasing(TP)
    /\ Len(TP) = 3
    /\ TP[1].time < TP[2].time
    /\ TP[2].time = q_time
    /\ TP[3].time = q_time
    /\ TP[2] # TP[3]
    /\ q_result = 3

BpmBoundsPositive ==
    /\ beatmap.min_bpm <= beatmap.max_bpm
    /\ beatmap.min_bpm > 0
    /\ beatmap.max_bpm > 0

\* C2 as stated: if at least one added timing point is uninherited then
\* min_bpm <= max_bpm and both are positive.
C2_Uninherited ==
    (\E i \in 1..Len(TP) : TP[i].uninherited) => BpmBoundsPositive

\* C2 amended: if at least one added timing point has a bpm (its beat length is
\* positive and round(60000 / beat length) is not 0) then min_bpm <= max_bpm and
\* both are positive.
C2_BpmPresent ==
    (\E i \in 1..Len(TP) : TP[i].bpm # None) => BpmBoundsPositive

C2_Witness ==
    /\ Len(TP) = 3
    /\ TP[1].bpm # None
    /\ TP[2].uninherited /\ TP[2].bpm = None
    /\ TP[3].bpm # None /\ TP[3].bpm # TP[1].bpm
    /\ beatmap.min_bpm < beatmap.max_bpm

BpmValues == {TP[i].bpm[1] : i \in {j \in 1..Len(TP) : TP[j].bpm # None}}

Least(S) == CHOOSE v \in S : \A w \in S : v <= w
Greatest(S) == CHOOSE v \in S : \A w \in S : v >= w

\* C8: after any sequence of add_timing_point calls, min_bpm is the minimum and
\* max_bpm the maximum of the bpm values of the stored points that have one, and
\* both are 0 when no stored point has a bpm.
C8_BpmBounds ==
    IF BpmValues = {}
    THEN beatmap.min_bpm = 0 /\ beatmap.max_bpm = 0
    ELSE beatmap.min_bpm = Least(BpmValues) /\ beatmap.max_bpm = Greatest(BpmValues)

C8_Witness ==
    /\ Len(TP) = 3
    /\ TP[1].bpm = None
    /\ TP[2].bpm # None
    /\ TP[3].bpm # None
    /\ TP[3].bpm[1] > TP[2].bpm[1]
    /\ beatmap.min_bpm = TP[2].bpm[1]
    /\ beatmap.max_bpm = TP[3].bpm[1]

\* the last call was add_timing_point and it stored a point
AddedPoint == q_time = -1 /\ err = "none" /\ Len(TP) > 0

LastPoint == TP[Len(TP)]

\* the raw beat-length field of the line of the last call
RawBeatLength == FloatVal(At(split(last_line, <<",">>), 1))

HasBpm == LastPoint.bpm # None

HasScrollVelocity ==
    /\ RawBeatLength.num < 0
    /\ LastPoint.velocity = [num |-> 100 * RawBeatLength.den, den |-> -RawBeatLength.num]

WithUninherited(line, u) == Join([split(line, <<",">>) EXCEPT ![7] = u], <<",">>)

\* the uninherited field changes neither bpm nor velocity
UninheritedIgnored ==
    \A u \in {<<"0">>, <<"1">>} :
        LET r == TimingPoint_parse(WithUninherited(last_line, u))
        IN  /\ r.ok
            /\ r.value.bpm = LastPoint.bpm
            /\ r.value.velocity = LastPoint.velocity
            /\ r.value.uninherited = (u = <<"1">>)

\* C9 as stated: for every point TimingPoint.parse produces, exactly one of
\* (a) bpm is present, (b) velocity was computed as 100/|beat_length| from a
\* negative raw beat_length holds, and the uninherited field has no part in it.
C9_ExactlyOne ==
    AddedPoint => /\ HasBpm # HasScrollVelocity
                  /\ UninheritedIgnored

\* C9 amended: (a) and (b) never hold together; (b) holds exactly when the raw
\* beat_length is negative; (a) holds exactly when the raw beat_length is positive
\* and 60000 / beat_length is more than a half (it does not round to 0), so
\* neither holds for a positive beat_length of 120000 or more, where bpm is absent
\* and velocity is 1.0; two lines differing only in the uninherited field yield
\* the same bpm and velocity.
C9_AtMostOne ==
    AddedPoint =>
        /\ ~(HasBpm /\ HasScrollVelocity)
        /\ HasScrollVelocity <=> RawBeatLength.num < 0
        /\ HasBpm <=> /\ RawBeatLength.num > 0
                      /\ 120000 * RawBeatLength.den > RawBeatLength.num
        /\ RawBeatLength.num > 0 => LastPoint.velocity = [num |-> 1, den |-> 1]
        /\ UninheritedIgnored

C9_Witness ==
    /\ AddedPoint
    /\ Len(TP) = 2
    /\ RawBeatLength.num > 0 /\ ~HasBpm /\ ~HasScrollVelocity
    /\ TP[1].uninherited /\ TP[1].bpm = None /\ TP[1].velocity.num = 100

\* the last call was add_hit_object and it stored an object
AddedObject == pc = "idle" /\ err = "none" /\ Len(HO) > 0

LastObject == HO[Len(HO)]

NotesEndAtTime == \A i \in 1..Len(HO) : HO[i].type = "note" => HO[i].end_time = HO[i].time

\* C3 as stated: every stored hit object of type 'hold' has end_time >= time and
\* every stored hit object of type 'note' has end_time = time, whatever the
\* type_flags and the end-time sub-field of the line.
C3_HoldEndsLater ==
    /\ \A i \in 1..Len(HO) : HO[i].type = "hold" => HO[i].end_time >= HO[i].time
    /\ NotesEndAtTime

\* C3 amended: every stored 'note' has end_time = time; a stored 'hold' has as
\* end_time the integer of the first colon-separated component of the line's 6th
\* field, which may be less than time.
C3_EndTimeAsWritten ==
    /\ NotesEndAtTime
    /\ AddedObject =>
          \A p \in HitParams :
              last_line = HitLine(p[1], p[2], p[3], p[4], p[5]) =>
                  /\ LastObject.time = p[2]
                  /\ LastObject.end_time = IF p[3] % 2 = 1 THEN p[2] ELSE p[5]

C3_Witness ==
    /\ AddedObject
    /\ Len(HO) = 2
    /\ HO[1].type = "note" /\ HO[1].end_time = HO[1].time
    /\ HO[2].type = "hold" /\ HO[2].end_time < HO[2].time
    /\ last_line = HitLine(64, 2, 128, 0, 1)

CountOf(type) == Cardinality({i \in 1..Len(HO) : HO[i].type = type})

\* C4: in every state reached by add_hit_object calls on an empty Beatmap, failed
\* calls included, nb_notes + nb_holds = len(hit_objects), nb_notes is the number
\* of stored 'note' objects and nb_holds the number of stored 'hold' objects.
C4_Counts ==
    /\ beatmap.nb_notes + beatmap.nb_holds = Len(HO)
    /\ beatmap.nb_notes = CountOf("note")
    /\ beatmap.nb_holds = CountOf("hold")

C4_Witness ==
    /\ pc = "idle"
    /\ err = "ValueError: Unknown hit object type!"
    /\ Len(HO) = 2
    /\ beatmap.nb_notes = 1
    /\ beatmap.nb_holds = 1

Xs == [i \in 1..Len(HO) |-> HO[i].x]

Range(f) == {f[i] : i \in DOMAIN f}

\* the distinct values of a list, each at its first occurrence
RECURSIVE FirstSeen(_)
FirstSeen(list) ==
    IF Len(list) = 0 THEN <<>>
    ELSE LET front == SubSeq(list, 1, Len(list) - 1)
             v == list[Len(list)]
         IN  IF v \in Range(front) THEN FirstSeen(front)
             ELSE Append(FirstSeen(front), v)

StrictlyAscending(list) ==
    \A i \in 1..Len(list) : \A j \in 1..Len(list) : i < j => list[i] < list[j]

\* C5: when parse_file_sync returns a Beatmap, key_positions is strictly
\* ascending and holds exactly the distinct x values of hit_objects; before the
\* final sort it is duplicate-free and in first-seen order.
C5_KeyPositions ==
    /\ pc = "returned" =>
          /\ StrictlyAscending(beatmap.key_positions)
          /\ Range(beatmap.key_positions) = Range(Xs)
    /\ pc # "returned" => beatmap.key_positions = FirstSeen(Xs)

C5_Witness ==
    /\ pc = "returned"
    /\ Len(HO) = 3
    /\ HO[1].x > HO[2].x
    /\ HO[3].x = HO[1].x
    /\ Len(beatmap.key_positions) = 2

\* one iteration of the line loop has been made by this step
LineStep == pc = "loop" /\ line_no' = line_no + 1

\* a line whose key, split on ": ", is Mode; and one whose value is then "3"
ModeKey(line) == line = sMode \/ StartsWith(line, sMode \o <<":", " ">>)

ModeIs3(line) ==
    \/ line = sMode \o <<":", " ", "3">>
    \/ StartsWith(line, sMode \o <<":", " ", "3", ":", " ">>)

BadModeStep ==
    /\ LineStep
    /\ section_to_read = sGeneral
    /\ ModeKey(last_line')
    /\ ~ModeIs3(last_line')

\* C6: a data line of the General section whose key is Mode and whose value is
\* not "3" makes the parse fail there with the invalid-game-mode error, no later
\* line is processed and no Beatmap is returned; the error occurs on no other
\* line.
C6_InvalidGameMode ==
    [][/\ BadModeStep => pc' = "raised" /\ err' = ModeError /\ beatmap' = beatmap
       /\ (LineStep /\ err' = ModeError) => BadModeStep
       /\ pc # "raised"]_vars

C6_Witness ==
    /\ pc = "raised"
    /\ err = ModeError
    /\ line_no = 4
    /\ beatmap.preview_time = 5
    /\ Len(TP) = 0 /\ Len(HO) = 0

UnknownTypeError == "ValueError: Unknown hit object type!"

NoteBit(type_flags) == type_flags % 2 = 1
HoldBit(type_flags) == (type_flags \div 128) % 2 = 1

\* this step handles the well-formed hit-object line of parameters p
HitStep(p) ==
    /\ LineStep
    /\ section_to_read = sHitObjects
    /\ last_line' = HitLine(p[1], p[2], p[3], p[4], p[5])

OneAppended ==
    /\ pc' = "loop" /\ err' = "none"
    /\ Len(beatmap'.hit_objects) = Len(HO) + 1
    /\ SubSeq(beatmap'.hit_objects, 1, Len(HO)) = HO

TypeAppended == beatmap'.hit_objects[Len(HO) + 1].type

Aborted == pc' = "raised" /\ err' = UnknownTypeError /\ beatmap' = beatmap

\* C7 as stated: a hit-object line with integer fields fails with the
\* unknown-type error exactly when type_flags has neither bit 0 nor bit 7; the
\* failure leaves the Beatmap unchanged and aborts the parse; otherwise one object
\* is appended, of type 'note' when bit 0 is set and 'hold' when bit 7 is set.
C7_TypeByEitherBit ==
    [][\A p \in FileHitParams :
          HitStep(p) =>
              IF ~NoteBit(p[3]) /\ ~HoldBit(p[3]) THEN Aborted
              ELSE /\ OneAppended
                   /\ NoteBit(p[3]) => TypeAppended = "note"
                   /\ HoldBit(p[3]) => TypeAppended = "hold"]_vars

\* C7 amended: as stated, except that the appended object is of type 'note'
\* when bit 0 is set, whether or not bit 7 is set, and of type 'hold' when bit 7
\* is set and bit 0 is not.
C7_NoteBitFirst ==
    [][\A p \in FileHitParams :
          HitStep(p) =>
              IF ~NoteBit(p[3]) /\ ~HoldBit(p[3]) THEN Aborted
              ELSE /\ OneAppended
                   /\ NoteBit(p[3]) => TypeAppended = "note"
                   /\ (HoldBit(p[3]) /\ ~NoteBit(p[3])) => TypeAppended = "hold"]_vars

C7_Witness ==
    /\ pc = "raised"
    /\ err = UnknownTypeError
    /\ Len(HO) = 2
    /\ HO[1].type = "hold"
    /\ HO[2].type = "note" /\ HO[2].x = 64
    /\ beatmap.key_positions = <<64>>

KnownSections == {sGeneral, sMetadata, sDifficulty, sTimingPoints, sHitObjects}

\* C10: a header line only sets the current section and changes no Beatmap
\* field; any other line leaves the current section alone, is decoded as a timing
\* point or hit object only in that section, and in a section that is not one of
\* the five known ones (or before any header) changes no Beatmap field and
\* raises no error.
C10_Dispatch ==
    [][LineStep =>
          /\ \A n \in KnownSections \cup {sEvents} :
                last_line' = Header(n) =>
                    /\ section_to_read' = n
                    /\ beatmap' = beatmap
                    /\ pc' = "loop" /\ err' = "none"
          /\ last_line' \notin HeaderLines =>
                /\ section_to_read' = section_to_read
                /\ section_to_read # sTimingPoints => beatmap'.timing_points = TP
                /\ section_to_read # sHitObjects => beatmap'.hit_objects = HO
                /\ (section_to_read = sTimingPoints /\ last_line' \in FileTimingLines)
                      => Len(beatmap'.timing_points) = Len(TP) + 1
                /\ section_to_read \notin KnownSections =>
                      /\ beatmap' = beatmap
                      /\ pc' = "loop" /\ err' = "none"]_vars

C10_Witness ==
    /\ pc = "loop"
    /\ section_to_read = sEvents
    /\ last_line = <<"M", "o", "d", "e", ":", " ", "1">>
    /\ line_no = 4
    /\ beatmap.preview_time = 5
    /\ beatmap = [Beatmap EXCEPT !.preview_time = 5]

====
